---- MODULE Spec2Model ----
(***************************************************************************)
(* Voting booth backend: voter registry, ballot lifecycle and the store.   *)
(* Python values are modelled with their run-time kind (None, str, Enum    *)
(* member, bool, raised exception), because the code's control flow        *)
(* depends on comparisons between kinds (an Enum member never equals a     *)
(* str) and on the truthiness of None and "".                              *)
(* Strings are sequences of characters (the texts of the statuses, which   *)
(* are only compared, are one token each).                                 *)
(* The functions are modelled as written, one action per API call; a call  *)
(* that raises leaves the exception in last.ret.                           *)
(***************************************************************************)
EXTENDS Integers, Sequences, FiniteSets, TLC

\* ------------------------------------------------------------------ bounds
MaxBallots == 3      \* ballot rows the store may hold
MaxSalt == 2         \* salts 1..MaxSalt that generate_ballot_number may draw
MaxCandidates == 1   \* candidate rows the store may hold
MaxText == 3         \* characters of the short free texts handed to the redaction

\* ------------------------------------------------------------ Python values
None == [t |-> "none"]
Str(s) == [t |-> "str", v |-> s]
Bool(b) == [t |-> "bool", b |-> b]
Enum(cls, name) == [t |-> "enum", cls |-> cls, name |-> name]
Raise(exc) == [t |-> "raise", exc |-> exc]
Obj(o) == [t |-> "obj", o |-> o]

EmptyStr == Str(<< >>)

\* bool(x) as Python evaluates it in `if x`, `x and y`
Truthy(x) ==
    CASE x.t = "none" -> FALSE
      [] x.t = "str"  -> x.v # << >>
      [] x.t = "bool" -> x.b
      [] OTHER        -> TRUE

\* x == y: values of different kinds are never equal
PyEq(x, y) == x = y

\* class VoterStatus(Enum), member name -> value
VoterStatusValue(name) ==
    CASE name = "NOT_REGISTERED"       -> Str(<<"not registered">>)
      [] name = "REGISTERED_NOT_VOTED" -> Str(<<"registered, but no ballot received">>)
      [] name = "BALLOT_COUNTED"       -> Str(<<"ballot counted">>)
      [] name = "FRAUD_COMMITTED"      -> Str(<<"fraud committed">>)

VoterStatusNames ==
    {"NOT_REGISTERED", "REGISTERED_NOT_VOTED", "BALLOT_COUNTED", "FRAUD_COMMITTED"}

VoterStatus(name) == Enum("VoterStatus", name)

\* class BallotStatus(Enum), member name -> value
BallotStatusValue(name) ==
    CASE name = "VOTER_BALLOT_MISMATCH" -> Str(<<"the ballot doesn't belong to the voter specified">>)
      [] name = "INVALID_BALLOT"        -> Str(<<"the ballot given is invalid">>)
      [] name = "FRAUD_COMMITTED"       -> Str(<<"fraud committed: the voter has already voted">>)
      [] name = "VOTER_NOT_REGISTERED"  -> Str(<<"voter not registered">>)
      [] name = "BALLOT_COUNTED"        -> Str(<<"ballot counted">>)

BallotStatus(name) == Enum("BallotStatus", name)

\* x.value: defined on Enum members only; a str has no attribute `value`
HasValueAttr(x) == x.t = "enum"
ValueOf(x) ==
    IF x.cls = "VoterStatus" THEN VoterStatusValue(x.name) ELSE BallotStatusValue(x.name)

\* VoterStatus(text): the member whose value is text (the stored texts are
\* always values of members)
VoterStatusOfText(text) ==
    VoterStatus(CHOOSE n \in VoterStatusNames : VoterStatusValue(n) = text)

\* ------------------------------------------------------------------ strings
Whitespace == {" ", "\t", "\n"}

RECURSIVE RemoveAll(_, _)
\* s.replace(c, "") for a one-character c
RemoveAll(s, c) ==
    IF s = << >> THEN << >>
    ELSE IF Head(s) = c THEN RemoveAll(Tail(s), c)
         ELSE <<Head(s)>> \o RemoveAll(Tail(s), c)

RECURSIVE LStrip(_)
LStrip(s) ==
    IF s # << >> /\ Head(s) \in Whitespace THEN LStrip(Tail(s)) ELSE s

RECURSIVE RStrip(_)
RStrip(s) ==
    IF s # << >> /\ s[Len(s)] \in Whitespace THEN RStrip(SubSeq(s, 1, Len(s) - 1)) ELSE s

\* s.strip()
Strip(s) == LStrip(RStrip(s))

RECURSIVE Replace(_, _, _)
\* s.replace(old, new): the occurrences of old, found from left to right
\* without overlap, become new; an empty old matches before every character
\* and at the end
Replace(s, old, new) ==
    IF old = << >>
    THEN IF s = << >> THEN new ELSE new \o <<Head(s)>> \o Replace(Tail(s), old, new)
    ELSE IF Len(s) < Len(old) THEN s
    ELSE IF SubSeq(s, 1, Len(old)) = old
    THEN new \o Replace(SubSeq(s, Len(old) + 1, Len(s)), old, new)
    ELSE <<Head(s)>> \o Replace(Tail(s), old, new)

\* `sub in s`
Contains(s, sub) ==
    \E i \in 1..(Len(s) - Len(sub) + 1) : SubSeq(s, i, i + Len(sub) - 1) = sub

\* the sanitization as it would be without .replace(" ", "")
SanitizeKeepingSpaces(s) == Strip(RemoveAll(s, "-"))

\* national_id.replace("-", "").replace(" ", "").strip()
Sanitize(s) == Strip(RemoveAll(RemoveAll(s, "-"), " "))

\* ------------------------------------------------------ identity protection
SECRET_NAME_KEY == "SECRET_NAME_KEY"
SECRET_NATIONAL_ID_KEY == "SECRET_NATIONAL_ID_KEY"
SecretNames == {SECRET_NAME_KEY, SECRET_NATIONAL_ID_KEY}

\* secret_registry: a named secret is absent until it is first written
NoKey == ""
Keys == {"k1"}      \* the value get_random_bytes produces for a key
Nonces == {"n1"}   \* the value get_random_bytes produces for a nonce
Salts == 1..MaxSalt

VARIABLES
    secrets,      \* secret_registry: secret name -> key, or NoKey
    voters,       \* table voters: obfuscated_national_id -> row
    ballots,      \* table ballots: ballot_number -> row
    candidates,   \* table candidates: candidate_id (1..n, autoincrement) -> name
    last,         \* the most recent API call, its arguments and its outcome
    calls         \* the call each request thread is in the middle of

vars == <<secrets, voters, ballots, candidates, last, calls>>

\* `sym_key = get_secret_bytes(name); if not sym_key: sym_key = random; overwrite`:
\* the keys a call may end up using
KeyChoices(name) == IF secrets[name] = NoKey THEN Keys ELSE {secrets[name]}

\* base64(AES-SIV(key).encrypt(pt)): deterministic, injective for a key, and
\* never shorter than pt; the empty plaintext encodes to the empty string
AesSivB64(key, pt) == IF pt = << >> THEN << >> ELSE <<key>> \o pt

\* obfuscate_national_id under the key in use
obfuscate_national_id(key, national_id) == AesSivB64(key, Sanitize(national_id))

\* base64.b64encode(x).decode("utf-8"), and bytes put into the JSON text as
\* they are
Base64Text(x) == [enc |-> "base64", v |-> x]
BytesInJson(x) == [enc |-> "bytes", v |-> x]

\* encrypt_name under the key in use and the nonce drawn: the ciphertext and
\* the tag are base64 texts, the nonce is handed to jsons.dumps as bytes
encrypt_name(key, nonce, name) ==
    [ciphertext |-> Base64Text([k |-> key, n |-> nonce, pt |-> Strip(name)]),
     tag        |-> Base64Text([k |-> key, pt |-> Strip(name)]),
     nonce      |-> BytesInJson(nonce)]

\* class MinimalVoter: __init__(obfuscated_first_name, obfuscated_last_name,
\* obfuscated_national_id, status), called positionally
MinimalVoter(a1, a2, a3, a4) ==
    [obfuscated_first_name |-> a1, obfuscated_last_name |-> a2,
     obfuscated_national_id |-> a3, status |-> a4]

\* Voter.get_minimal_voter
get_minimal_voter(nameKey, idKey, n1, n2, voter) ==
    MinimalVoter(encrypt_name(nameKey, n1, Strip(voter.first_name)),
                 encrypt_name(nameKey, n2, Strip(voter.last_name)),
                 obfuscate_national_id(idKey, voter.national_id),
                 VoterStatusValue("NOT_REGISTERED"))

\* -------------------------------------------------------------- VotingStore
\* add_voter: INSERT; a second row with the same primary key is an IntegrityError
add_voter_raises(vt, id, status) == ~HasValueAttr(status) \/ id \in DOMAIN vt
add_voter(vt, id, first, last_name, status) ==
    [k \in DOMAIN vt \cup {id} |->
        IF k = id
        THEN [obfuscated_first_name |-> first, obfuscated_last_name |-> last_name,
              status |-> ValueOf(status)]
        ELSE vt[k]]

\* get_voter: the row as a MinimalVoter (arguments in the order the code
\* passes them), or None
get_voter(vt, id) ==
    IF id \in DOMAIN vt
    THEN Obj(MinimalVoter(id, vt[id].obfuscated_first_name, vt[id].obfuscated_last_name,
                          VoterStatusOfText(vt[id].status)))
    ELSE None

\* update_voter_status: evaluates status.value, then UPDATE ... WHERE id
update_voter_status_raises(status) == ~HasValueAttr(status)
update_voter_status(vt, id, status) ==
    [k \in DOMAIN vt |-> IF k = id THEN [vt[k] EXCEPT !.status = ValueOf(status)] ELSE vt[k]]

\* delete_voter
delete_voter(vt, id) == [k \in DOMAIN vt \ {id} |-> vt[k]]

\* add_ballot: INSERT INTO ballots (ballot_number): the other columns are NULL
add_ballot_raises(bt, bn) == bn \in DOMAIN bt
add_ballot(bt, bn) ==
    [k \in DOMAIN bt \cup {bn} |->
        IF k = bn
        THEN [chosen_candidate_id |-> None, voter_comments |-> None, status |-> None]
        ELSE bt[k]]

\* get_ballot: subscripts the fetched row; fetchone() is None when no row matches
get_ballot_raises(bt, bn) == bn \notin DOMAIN bt
get_ballot(bt, bn) ==
    [ballot |-> [ballot_number |-> bn,
                 chosen_candidate_id |-> bt[bn].chosen_candidate_id,
                 voter_comments |-> bt[bn].voter_comments],
     status |-> bt[bn].status]

\* delete_ballot
delete_ballot(bt, bn) == [k \in DOMAIN bt \ {bn} |-> bt[k]]

\* update_ballot
update_ballot(bt, bn, chosen_candidate_id, voter_comments, status) ==
    [k \in DOMAIN bt |->
        IF k = bn
        THEN [chosen_candidate_id |-> chosen_candidate_id,
              voter_comments |-> voter_comments, status |-> status]
        ELSE bt[k]]

\* ------------------------------------------------------------ ballot binding
\* generate_ballot_number(national_id, salt): base64 of the serialized
\* {salt, binding value}; the binding value is a deterministic function of
\* the sanitized national ID and the salt
generate_ballot_number(national_id, salt) ==
    [salt |-> salt, binding |-> [salt |-> salt, sid |-> Sanitize(national_id)]]

\* a ballot number that is not the base64 of any serialized {salt, binding}
MalformedBallotNumber == [salt |-> 0, binding |-> [salt |-> 0, sid |-> << >>]]

\* base64-decode and parse: fails on a malformed number
Decodable(bn) == bn.salt \in Salts
DecodeSalt(bn) == bn.salt

\* a ballot number as a Python str
BallotNo(bn) == [t |-> "str", b64 |-> bn]

\* class Ballot: a plain object (always truthy)
Ballot(ballot_number, chosen_candidate_id, voter_comments) ==
    [ballot_number |-> ballot_number, chosen_candidate_id |-> chosen_candidate_id,
     voter_comments |-> voter_comments]

\* ---------------------------------------------------------------- registry API
\* register_voter as it would be with INSERT OR REPLACE: a second registration
\* overwrites the row and reports success
register_voter_replacing(vt, nameKey, idKey, n1, n2, voter) ==
    LET minimal_voter == get_minimal_voter(nameKey, idKey, n1, n2, voter)
        id == minimal_voter.obfuscated_national_id
        row == [obfuscated_first_name |-> minimal_voter.obfuscated_first_name,
                obfuscated_last_name |-> minimal_voter.obfuscated_last_name,
                status |-> VoterStatusValue("REGISTERED_NOT_VOTED")]
    IN  [ret |-> Bool(TRUE),
         voters |-> [k \in DOMAIN vt \cup {id} |-> IF k = id THEN row ELSE vt[k]]]

\* register_voter as it would be if it stored the status the MinimalVoter
\* carries (NOT_REGISTERED) instead of REGISTERED_NOT_VOTED
register_voter_storing_minimal_status(vt, nameKey, idKey, n1, n2, voter) ==
    LET minimal_voter == get_minimal_voter(nameKey, idKey, n1, n2, voter)
    IN  IF add_voter_raises(vt, minimal_voter.obfuscated_national_id,
                            VoterStatus("NOT_REGISTERED"))
        THEN [ret |-> Bool(FALSE), voters |-> vt]
        ELSE [ret |-> Bool(TRUE),
              voters |-> add_voter(vt, minimal_voter.obfuscated_national_id,
                                   minimal_voter.obfuscated_first_name,
                                   minimal_voter.obfuscated_last_name,
                                   VoterStatus("NOT_REGISTERED"))]

\* register_voter
register_voter(vt, nameKey, idKey, n1, n2, voter) ==
    LET minimal_voter == get_minimal_voter(nameKey, idKey, n1, n2, voter)
    IN  IF add_voter_raises(vt, minimal_voter.obfuscated_national_id,
                            VoterStatus("REGISTERED_NOT_VOTED"))
        THEN [ret |-> Bool(FALSE), voters |-> vt]
        ELSE [ret |-> Bool(TRUE),
              voters |-> add_voter(vt, minimal_voter.obfuscated_national_id,
                                   minimal_voter.obfuscated_first_name,
                                   minimal_voter.obfuscated_last_name,
                                   VoterStatus("REGISTERED_NOT_VOTED"))]

\* get_voter_status as it would be if it took the token it is handed as it
\* is and returned the stored status text
get_voter_status_of_token(vt, idKey, voter_national_id) ==
    IF voter_national_id \in DOMAIN vt THEN vt[voter_national_id].status
    ELSE VoterStatusValue("NOT_REGISTERED")

\* get_voter_status: obfuscates its argument, then looks the voter up
get_voter_status(vt, idKey, voter_national_id) ==
    LET obfuscated_national_id == obfuscate_national_id(idKey, voter_national_id)
        minimal_voter == get_voter(vt, obfuscated_national_id)
    IN  IF Truthy(minimal_voter) THEN minimal_voter.o.status
        ELSE VoterStatus("NOT_REGISTERED")

\* de_register_voter as it would be if it reported success without deleting
de_register_voter_keeping_row(vt, idKey, voter_national_id) ==
    LET obfuscated_national_id == obfuscate_national_id(idKey, voter_national_id)
        minimal_voter == get_voter(vt, obfuscated_national_id)
    IN  IF Truthy(minimal_voter)
           /\ ~PyEq(minimal_voter.o.status, VoterStatus("FRAUD_COMMITTED"))
        THEN [ret |-> Bool(TRUE), voters |-> vt]
        ELSE [ret |-> Bool(FALSE), voters |-> vt]

\* de_register_voter
de_register_voter(vt, idKey, voter_national_id) ==
    LET obfuscated_national_id == obfuscate_national_id(idKey, voter_national_id)
        minimal_voter == get_voter(vt, obfuscated_national_id)
    IN  IF Truthy(minimal_voter)
           /\ ~PyEq(minimal_voter.o.status, VoterStatus("FRAUD_COMMITTED"))
        THEN [ret |-> Bool(TRUE), voters |-> delete_voter(vt, obfuscated_national_id)]
        ELSE [ret |-> Bool(FALSE), voters |-> vt]

\* ------------------------------------------------------------- PII redaction
REDACTED_PHONE_NUMBER ==
    <<"[", "R", "E", "D", "A", "C", "T", "E", "D", " ", "P", "H", "O", "N",
      "E", " ", "N", "U", "M", "B", "E", "R", "]">>
REDACTED_NAME ==
    <<"[", "R", "E", "D", "A", "C", "T", "E", "D", " ", "N", "A", "M", "E", "]">>
REDACTED_EMAIL ==
    <<"[", "R", "E", "D", "A", "C", "T", "E", "D", " ", "E", "M", "A", "I", "L", "]">>
REDACTED_NATIONAL_ID ==
    <<"[", "R", "E", "D", "A", "C", "T", "E", "D", " ", "N", "A", "T", "I",
      "O", "N", "A", "L", " ", "I", "D", "]">>

\* decrypt_name: each of the three parts is base64-decoded after
\* `.encode("utf-8")`, which a part that is not a base64 text does not
\* survive (bytes come back from the JSON text as a list, which has no
\* encode); then the plaintext, when the tag verifies under the stored key
decrypt_name(nameKey, bundle) ==
    IF \E part \in {"ciphertext", "tag", "nonce"} : bundle[part].enc # "base64"
    THEN Raise("AttributeError")
    ELSE IF bundle.tag.v.k # nameKey THEN Raise("ValueError")
    ELSE Str(bundle.ciphertext.v.pt)

\* the orders in which a set may be iterated
Orders(S) ==
    {f \in [1..Cardinality(S) -> S] : \A i, j \in 1..Cardinality(S) : f[i] = f[j] => i = j}

RECURSIVE ReplaceNames(_, _)
\* `for name in names: redacted_text = redacted_text.replace(name, REDACTED_NAME)`
ReplaceNames(text, names) ==
    IF names = << >> THEN text
    ELSE ReplaceNames(Replace(text, Head(names), REDACTED_NAME), Tail(names))

\* a text without a digit and without "@": none of the regular expressions of
\* lines 34-39 (phone number, e-mail address, national ID) matches in it
PatternFree(text) ==
    \A i \in 1..Len(text) :
        text[i] \notin {"0", "1", "2", "3", "4", "5", "6", "7", "8", "9", "@"}

\* redact_free_text, lines 33-51: the regular-expression passes; on a text in
\* which no pattern matches, re.sub and re.findall leave it as it is (the
\* texts redacted in this model are such texts)
RedactPatterns(text) == CASE PatternFree(text) -> text

\* redact_free_text when the three name sets are iterated in the orders
\* given; the `replace` of the national IDs (lines 31-32) drops its result
RedactInOrder(text, first_names, last_names, candidate_names) ==
    RedactPatterns(ReplaceNames(ReplaceNames(ReplaceNames(text, first_names), last_names),
                                candidate_names))

\* redact_free_text: every result the call may have, whatever the iteration
\* orders of the three sets; decrypt_name raising ends the call
RedactFreeTextResults(vt, cands, nameKey, free_text) ==
    LET firsts == {decrypt_name(nameKey, vt[k].obfuscated_first_name) : k \in DOMAIN vt}
        lasts  == {decrypt_name(nameKey, vt[k].obfuscated_last_name) : k \in DOMAIN vt}
        raised == {x \in firsts \cup lasts : x.t = "raise"}
        first_names == {x.v : x \in firsts}
        last_names == {x.v : x \in lasts}
        candidate_names == {cands[i] : i \in DOMAIN cands}
    IN  IF raised # {} THEN raised
        ELSE {Str(RedactInOrder(free_text.v, f, l, c)) :
                f \in Orders(first_names), l \in Orders(last_names),
                c \in Orders(candidate_names)}

\* redact_free_text within one run of the interpreter, where the iteration
\* order of a set is fixed
redact_free_text(vt, cands, nameKey, free_text) ==
    CHOOSE r \in RedactFreeTextResults(vt, cands, nameKey, free_text) : TRUE

\* --------------------------------------------------------------- balloting API
\* issue_ballot as it would be if issuing destroyed the voter's earlier ballots
issue_ballot_dropping_earlier(vt, bt, idKey, salt, voter_national_id) ==
    LET obfuscated_national_id == obfuscate_national_id(idKey, voter_national_id)
        voter == get_voter(vt, obfuscated_national_id)
        ballot_number == generate_ballot_number(voter_national_id, salt)
        others == {k \in DOMAIN bt :
                     ~(Decodable(k) /\ generate_ballot_number(voter_national_id, DecodeSalt(k)) = k)}
    IN  IF Truthy(voter) /\ ~add_ballot_raises(bt, ballot_number)
        THEN [ret |-> BallotNo(ballot_number),
              ballots |-> add_ballot([k \in others |-> bt[k]], ballot_number)]
        ELSE [ret |-> None, ballots |-> bt]

\* issue_ballot as it would be without the `if voter:` test
issue_ballot_to_anyone(vt, bt, idKey, salt, voter_national_id) ==
    LET ballot_number == generate_ballot_number(voter_national_id, salt)
    IN  IF ~add_ballot_raises(bt, ballot_number)
        THEN [ret |-> BallotNo(ballot_number), ballots |-> add_ballot(bt, ballot_number)]
        ELSE [ret |-> None, ballots |-> bt]

\* issue_ballot
issue_ballot(vt, bt, idKey, salt, voter_national_id) ==
    LET obfuscated_national_id == obfuscate_national_id(idKey, voter_national_id)
        voter == get_voter(vt, obfuscated_national_id)
        ballot_number == generate_ballot_number(voter_national_id, salt)
    IN  IF Truthy(voter) /\ ~add_ballot_raises(bt, ballot_number)
        THEN [ret |-> BallotNo(ballot_number), ballots |-> add_ballot(bt, ballot_number)]
        ELSE [ret |-> None, ballots |-> bt]

\* verify_ballot as it would be if it only looked the ballot up and never
\* compared the regenerated number
verify_ballot_without_comparison(bt, voter_national_id, ballot_number) ==
    ~get_ballot_raises(bt, ballot_number) /\ Decodable(ballot_number)

\* verify_ballot as it would be if it regenerated the number without looking
\* the ballot up in the store
verify_ballot_without_lookup(bt, voter_national_id, ballot_number) ==
    IF ~Decodable(ballot_number) THEN FALSE
    ELSE generate_ballot_number(voter_national_id, DecodeSalt(ballot_number)) = ballot_number

\* verify_ballot: any exception inside is swallowed and gives False
verify_ballot(bt, voter_national_id, ballot_number) ==
    IF get_ballot_raises(bt, ballot_number) THEN FALSE
    ELSE IF ~Decodable(ballot_number) THEN FALSE
    ELSE generate_ballot_number(voter_national_id, DecodeSalt(ballot_number)) = ballot_number

\* invalidate_ballot: any exception inside is swallowed and gives False
invalidate_ballot(bt, ballot_number) ==
    IF get_ballot_raises(bt, ballot_number)
    THEN [ret |-> Bool(FALSE), ballots |-> bt]
    ELSE LET got == get_ballot(bt, ballot_number)
         IN  IF /\ Truthy(Obj(got.ballot))
                /\ Truthy(got.status)
                /\ PyEq(got.status, EmptyStr)
                /\ PyEq(got.ballot.voter_comments, EmptyStr)
                /\ PyEq(got.ballot.chosen_candidate_id, EmptyStr)
             THEN [ret |-> Bool(TRUE), ballots |-> delete_ballot(bt, ballot_number)]
             ELSE [ret |-> Bool(FALSE), ballots |-> bt]

\* count_ballot, lines 62-66: the fraud branch
count_ballot_fraud(vt, bt, obfuscated_national_id, ballot) ==
    IF update_voter_status_raises(VoterStatusValue("FRAUD_COMMITTED"))
    THEN [ret |-> Raise("AttributeError"), voters |-> vt, ballots |-> bt]
    ELSE [ret |-> BallotStatus("FRAUD_COMMITTED"),
          voters |-> update_voter_status(vt, obfuscated_national_id,
                                         VoterStatusValue("FRAUD_COMMITTED")),
          ballots |-> invalidate_ballot(bt, ballot.ballot_number).ballots]

\* count_ballot, lines 67-73: the branch that counts the ballot
count_ballot_success(vt, bt, cands, nameKey, obfuscated_national_id, ballot) ==
    LET voter_comments == redact_free_text(vt, cands, nameKey, ballot.voter_comments)
        updated == update_ballot(bt, ballot.ballot_number, ballot.chosen_candidate_id,
                                 voter_comments, BallotStatusValue("BALLOT_COUNTED"))
    IN  IF voter_comments.t = "raise"
        THEN [ret |-> voter_comments, voters |-> vt, ballots |-> bt]
        ELSE IF update_voter_status_raises(VoterStatusValue("BALLOT_COUNTED"))
        THEN [ret |-> Raise("AttributeError"), voters |-> vt, ballots |-> updated]
        ELSE [ret |-> BallotStatus("BALLOT_COUNTED"),
              voters |-> update_voter_status(vt, obfuscated_national_id,
                                             VoterStatusValue("BALLOT_COUNTED")),
              ballots |-> updated]

\* count_ballot as it would be if a mismatch were recorded on the ballot row
count_ballot_recording_mismatch(vt, bt, cands, nameKey, idKey, ballot, voter_national_id) ==
    LET obfuscated_national_id == obfuscate_national_id(idKey, voter_national_id)
        voter_status == get_voter_status(vt, idKey, obfuscated_national_id)
        unchanged(r) == [ret |-> r, voters |-> vt, ballots |-> bt]
    IN  IF PyEq(voter_status, VoterStatusValue("NOT_REGISTERED"))
        THEN unchanged(BallotStatus("VOTER_NOT_REGISTERED"))
        ELSE IF get_ballot_raises(bt, ballot.ballot_number)
        THEN unchanged(Raise("TypeError"))
        ELSE IF ~Truthy(Obj(get_ballot(bt, ballot.ballot_number).ballot))
        THEN unchanged(BallotStatus("INVALID_BALLOT"))
        ELSE IF ~verify_ballot(bt, voter_national_id, ballot.ballot_number)
        THEN [ret |-> BallotStatus("VOTER_BALLOT_MISMATCH"), voters |-> vt,
              ballots |-> update_ballot(bt, ballot.ballot_number, None, None,
                                        BallotStatusValue("VOTER_BALLOT_MISMATCH"))]
        ELSE IF ~PyEq(voter_status, VoterStatusValue("REGISTERED_NOT_VOTED"))
        THEN count_ballot_fraud(vt, bt, obfuscated_national_id, ballot)
        ELSE count_ballot_success(vt, bt, cands, nameKey, obfuscated_national_id, ballot)

\* count_ballot as it would be if a ballot presented by the wrong voter were
\* destroyed
count_ballot_destroying_mismatched(vt, bt, cands, nameKey, idKey, ballot, voter_national_id) ==
    LET obfuscated_national_id == obfuscate_national_id(idKey, voter_national_id)
        voter_status == get_voter_status(vt, idKey, obfuscated_national_id)
        unchanged(r) == [ret |-> r, voters |-> vt, ballots |-> bt]
    IN  IF PyEq(voter_status, VoterStatusValue("NOT_REGISTERED"))
        THEN unchanged(BallotStatus("VOTER_NOT_REGISTERED"))
        ELSE IF get_ballot_raises(bt, ballot.ballot_number)
        THEN unchanged(Raise("TypeError"))
        ELSE IF ~Truthy(Obj(get_ballot(bt, ballot.ballot_number).ballot))
        THEN unchanged(BallotStatus("INVALID_BALLOT"))
        ELSE IF ~verify_ballot(bt, voter_national_id, ballot.ballot_number)
        THEN [ret |-> BallotStatus("VOTER_BALLOT_MISMATCH"), voters |-> vt,
              ballots |-> delete_ballot(bt, ballot.ballot_number)]
        ELSE IF ~PyEq(voter_status, VoterStatusValue("REGISTERED_NOT_VOTED"))
        THEN count_ballot_fraud(vt, bt, obfuscated_national_id, ballot)
        ELSE count_ballot_success(vt, bt, cands, nameKey, obfuscated_national_id, ballot)

\* count_ballot as it would be without the test of the voter's status: every
\* verified ballot is recorded as counted
count_ballot_counting_every_verified(vt, bt, cands, nameKey, idKey, ballot, voter_national_id) ==
    LET obfuscated_national_id == obfuscate_national_id(idKey, voter_national_id)
        voter_status == get_voter_status(vt, idKey, obfuscated_national_id)
        unchanged(r) == [ret |-> r, voters |-> vt, ballots |-> bt]
    IN  IF PyEq(voter_status, VoterStatusValue("NOT_REGISTERED"))
        THEN unchanged(BallotStatus("VOTER_NOT_REGISTERED"))
        ELSE IF get_ballot_raises(bt, ballot.ballot_number)
        THEN unchanged(Raise("TypeError"))
        ELSE IF ~Truthy(Obj(get_ballot(bt, ballot.ballot_number).ballot))
        THEN unchanged(BallotStatus("INVALID_BALLOT"))
        ELSE IF ~verify_ballot(bt, voter_national_id, ballot.ballot_number)
        THEN unchanged(BallotStatus("VOTER_BALLOT_MISMATCH"))
        ELSE [ret |-> BallotStatus("BALLOT_COUNTED"), voters |-> vt,
              ballots |-> update_ballot(bt, ballot.ballot_number, ballot.chosen_candidate_id,
                                        ballot.voter_comments,
                                        BallotStatusValue("BALLOT_COUNTED"))]

\* count_ballot
count_ballot(vt, bt, cands, nameKey, idKey, ballot, voter_national_id) ==
    LET obfuscated_national_id == obfuscate_national_id(idKey, voter_national_id)
        voter_status == get_voter_status(vt, idKey, obfuscated_national_id)
        unchanged(r) == [ret |-> r, voters |-> vt, ballots |-> bt]
    IN  IF PyEq(voter_status, VoterStatusValue("NOT_REGISTERED"))
        THEN unchanged(BallotStatus("VOTER_NOT_REGISTERED"))
        ELSE IF get_ballot_raises(bt, ballot.ballot_number)
        THEN unchanged(Raise("TypeError"))
        ELSE IF ~Truthy(Obj(get_ballot(bt, ballot.ballot_number).ballot))
        THEN unchanged(BallotStatus("INVALID_BALLOT"))
        ELSE IF ~verify_ballot(bt, voter_national_id, ballot.ballot_number)
        THEN unchanged(BallotStatus("VOTER_BALLOT_MISMATCH"))
        ELSE IF ~PyEq(voter_status, VoterStatusValue("REGISTERED_NOT_VOTED"))
        THEN count_ballot_fraud(vt, bt, obfuscated_national_id, ballot)
        ELSE count_ballot_success(vt, bt, cands, nameKey, obfuscated_national_id, ballot)

\* compute_election_winner: the outcomes the call may have. The votes are the
\* rows whose status is BALLOT_COUNTED.value; max() of no votes raises
\* ValueError; among candidates with equally many votes max() returns the one
\* met first in row order, which the model leaves open.
compute_election_winner(bt) ==
    LET counted == {bn \in DOMAIN bt :
                      PyEq(bt[bn].status, BallotStatusValue("BALLOT_COUNTED"))}
        ids == {bt[bn].chosen_candidate_id : bn \in counted}
        votes(c) == Cardinality({bn \in counted : bt[bn].chosen_candidate_id = c})
    IN  IF ids = {} THEN {Raise("ValueError")}
        ELSE {c \in ids : \A d \in ids : votes(c) >= votes(d)}

\* get_all_fraudulent_voters: `raise NotImplementedError()`
get_all_fraudulent_voters(vt) == Raise("NotImplementedError")

\* ------------------------------------------------------------------- inputs
\* raw national IDs: the first two differ only in a dash and a space
NationalIds == {<<"1", "-", " ", "1">>, <<"1", "1">>, <<"2", "2">>}

\* class Voter(first_name, last_name, national_id)
Voter(first_name, last_name, national_id) ==
    [first_name |-> first_name, last_name |-> last_name, national_id |-> national_id]

VoterInputs ==
    {Voter(<<"A", "l">>, <<"B", "o">>, <<"1", "-", " ", "1">>),
     Voter(<<"A", "l">>, <<"B", "o">>, <<"1", "1">>),
     Voter(<<"C", "y">>, <<"D", "i">>, <<"2", "2">>)}

CandidateNames == {<<"E", "d">>}
\* the votes a caller may submit: <<chosen_candidate_id, voter_comments>>
VoteInputs == {<<Str(<<"1">>), EmptyStr>>, <<Str(<<"2">>), Str(<<"A", "l">>)>>}

\* the ballot numbers a caller may present: every well-formed one and a malformed one
BallotNumbers ==
    {generate_ballot_number(id, salt) : id \in NationalIds, salt \in Salts}
        \cup {MalformedBallotNumber}

NoId == << >>
NoBallot == [salt |-> 0, binding |-> [salt |-> 0, sid |-> <<"none">>]]

Call(op, id, ballot, cand, comments, ret) ==
    [op |-> op, id |-> id, ballot |-> ballot, cand |-> cand, comments |-> comments,
     ret |-> ret]

\* -------------------------------------------------------------------- actions
\* the request threads of the server (Flask serves each request on a thread
\* of its own; all of them share the one sqlite connection)
Threads == {1, 2}

\* a thread that is in no count_ballot call
Idle == [pc |-> "idle", id |-> NoId, ballot |-> Ballot(NoBallot, None, None),
         obfuscated_national_id |-> << >>, voter_status |-> None, ret |-> None,
         overlapped |-> FALSE]

Init ==
    /\ secrets = [n \in SecretNames |-> NoKey]
    /\ voters = [k \in {} |-> None]
    /\ ballots = [k \in {} |-> None]
    /\ candidates = << >>
    /\ last = Call("init", NoId, NoBallot, None, None, None)
    /\ calls = [t \in Threads |-> Idle]

\* registry.register_candidate
RegisterCandidate(name) ==
    /\ Len(candidates) < MaxCandidates
    /\ candidates' = Append(candidates, name)
    /\ last' = Call("register_candidate", NoId, NoBallot, None, None, None)
    /\ UNCHANGED <<secrets, voters, ballots, calls>>

\* registry.register_voter
RegisterVoter(voter) ==
    \E nameKey \in KeyChoices(SECRET_NAME_KEY), idKey \in KeyChoices(SECRET_NATIONAL_ID_KEY),
       n1 \in Nonces, n2 \in Nonces :
        LET r == register_voter(voters, nameKey, idKey, n1, n2, voter)
        IN  /\ secrets' = [secrets EXCEPT ![SECRET_NAME_KEY] = nameKey,
                                          ![SECRET_NATIONAL_ID_KEY] = idKey]
            /\ voters' = r.voters
            /\ last' = Call("register_voter", voter.national_id, NoBallot, None, None, r.ret)
            /\ UNCHANGED <<ballots, candidates, calls>>

\* registry.de_register_voter
DeRegisterVoter(id) ==
    \E idKey \in KeyChoices(SECRET_NATIONAL_ID_KEY) :
        LET r == de_register_voter(voters, idKey, id)
        IN  /\ secrets' = [secrets EXCEPT ![SECRET_NATIONAL_ID_KEY] = idKey]
            /\ voters' = r.voters
            /\ last' = Call("de_register_voter", id, NoBallot, None, None, r.ret)
            /\ UNCHANGED <<ballots, candidates, calls>>

\* balloting.issue_ballot; when a ballot is generated, the salt drawn is one
\* that gives a number not in the store (a random salt repeats with
\* negligible probability)
IssueBallot(id) ==
    \E idKey \in KeyChoices(SECRET_NATIONAL_ID_KEY), salt \in Salts :
        LET r == issue_ballot(voters, ballots, idKey, salt, id)
        IN  /\ Truthy(get_voter(voters, obfuscate_national_id(idKey, id)))
                  => generate_ballot_number(id, salt) \notin DOMAIN ballots
            /\ Cardinality(DOMAIN r.ballots) <= MaxBallots
            /\ secrets' = [secrets EXCEPT ![SECRET_NATIONAL_ID_KEY] = idKey]
            /\ ballots' = r.ballots
            /\ last' = Call("issue_ballot", id, NoBallot, None, None, r.ret)
            /\ UNCHANGED <<voters, candidates, calls>>

\* balloting.count_ballot
CountBallot(bn, cand, comments, id) ==
    \E idKey \in KeyChoices(SECRET_NATIONAL_ID_KEY) :
        LET r == count_ballot(voters, ballots, candidates, secrets[SECRET_NAME_KEY], idKey,
                              Ballot(bn, cand, comments), id)
        IN  /\ secrets' = [secrets EXCEPT ![SECRET_NATIONAL_ID_KEY] = idKey]
            /\ voters' = r.voters
            /\ ballots' = r.ballots
            /\ last' = Call("count_ballot", id, bn, cand, comments, r.ret)
            /\ UNCHANGED <<candidates, calls>>

\* balloting.invalidate_ballot
InvalidateBallot(bn) ==
    LET r == invalidate_ballot(ballots, bn)
    IN  /\ ballots' = r.ballots
        /\ last' = Call("invalidate_ballot", NoId, bn, None, None, r.ret)
        /\ UNCHANGED <<secrets, voters, candidates, calls>>

\* registry.get_voter_status
GetVoterStatus(id) ==
    \E idKey \in KeyChoices(SECRET_NATIONAL_ID_KEY) :
        /\ secrets' = [secrets EXCEPT ![SECRET_NATIONAL_ID_KEY] = idKey]
        /\ last' = Call("get_voter_status", id, NoBallot, None, None,
                        get_voter_status(voters, idKey, id))
        /\ UNCHANGED <<voters, ballots, candidates, calls>>

\* balloting.verify_ballot
VerifyBallot(id, bn) ==
    /\ last' = Call("verify_ballot", id, bn, None, None, Bool(verify_ballot(ballots, id, bn)))
    /\ UNCHANGED <<secrets, voters, ballots, candidates, calls>>

\* balloting.compute_election_winner
ComputeElectionWinner ==
    \E r \in compute_election_winner(ballots) :
        /\ last' = Call("compute_election_winner", NoId, NoBallot, None, None, r)
        /\ UNCHANGED <<secrets, voters, ballots, candidates, calls>>

\* balloting.get_all_fraudulent_voters
GetAllFraudulentVoters ==
    /\ last' = Call("get_all_fraudulent_voters", NoId, NoBallot, None, None,
                    get_all_fraudulent_voters(voters))
    /\ UNCHANGED <<secrets, voters, ballots, candidates, calls>>

Next ==
    \/ \E name \in CandidateNames : RegisterCandidate(name)
    \/ \E voter \in VoterInputs : RegisterVoter(voter)
    \/ \E id \in NationalIds : DeRegisterVoter(id)
    \/ \E id \in NationalIds : IssueBallot(id)
    \/ \E bn \in BallotNumbers, vote \in VoteInputs, id \in NationalIds :
          CountBallot(bn, vote[1], vote[2], id)
    \/ \E bn \in BallotNumbers : InvalidateBallot(bn)
    \/ \E id \in NationalIds : GetVoterStatus(id)
    \/ \E id \in NationalIds, bn \in BallotNumbers : VerifyBallot(id, bn)
    \/ ComputeElectionWinner
    \/ GetAllFraudulentVoters

Spec == Init /\ [][Next]_vars

\* ------------------------------------------- concurrent count_ballot requests
\* The store as populate_database leaves it before the server takes requests:
\* the candidates and voters registered and ballots issued, here two ballots
\* to the first voter and one to the second.
PopulatedVoters ==
    LET v1 == register_voter([k \in {} |-> None], "k1", "k1", "n1", "n1",
                             Voter(<<"A", "l">>, <<"B", "o">>, <<"1", "-", " ", "1">>)).voters
    IN  register_voter(v1, "k1", "k1", "n1", "n1",
                       Voter(<<"C", "y">>, <<"D", "i">>, <<"2", "2">>)).voters

PopulatedBallots ==
    LET b1 == issue_ballot(PopulatedVoters, [k \in {} |-> None], "k1", 1,
                           <<"1", "-", " ", "1">>).ballots
        b2 == issue_ballot(PopulatedVoters, b1, "k1", 2, <<"1", "-", " ", "1">>).ballots
    IN  issue_ballot(PopulatedVoters, b2, "k1", 1, <<"2", "2">>)

InitConc ==
    /\ secrets = [n \in SecretNames |-> "k1"]
    /\ voters = PopulatedVoters
    /\ ballots = PopulatedBallots.ballots
    /\ candidates = <<<<"E", "d">>>>
    /\ last = Call("issue_ballot", <<"2", "2">>, NoBallot, None, None, PopulatedBallots.ret)
    /\ calls = [t \in Threads |-> Idle]

\* a thread's call has returned (or raised)
Done(c, ret) == [c EXCEPT !.pc = "done", !.ret = ret]

\* count_ballot, lines 51-54: a request thread enters count_ballot and reads
\* the voter's status
CountBegin(t, bn, cand, comments, id) ==
    \E idKey \in KeyChoices(SECRET_NATIONAL_ID_KEY) :
        LET obfuscated_national_id == obfuscate_national_id(idKey, id)
            voter_status == get_voter_status(voters, idKey, obfuscated_national_id)
            c == [pc |-> "status_read", id |-> id, ballot |-> Ballot(bn, cand, comments),
                  obfuscated_national_id |-> obfuscated_national_id,
                  voter_status |-> voter_status, ret |-> None,
                  overlapped |-> \E u \in Threads \ {t} :
                                    calls[u].pc \notin {"idle", "done"}]
        IN  /\ calls[t].pc = "idle"
            /\ secrets' = [secrets EXCEPT ![SECRET_NATIONAL_ID_KEY] = idKey]
            /\ calls' = [calls EXCEPT ![t] =
                            IF PyEq(voter_status, VoterStatusValue("NOT_REGISTERED"))
                            THEN Done(c, BallotStatus("VOTER_NOT_REGISTERED"))
                            ELSE c]
            /\ UNCHANGED <<voters, ballots, candidates, last>>

\* count_ballot, lines 55-58: store.get_ballot
CountGetBallot(t) ==
    LET c == calls[t]
    IN  /\ c.pc = "status_read"
        /\ calls' = [calls EXCEPT ![t] =
                        IF get_ballot_raises(ballots, c.ballot.ballot_number)
                        THEN Done(c, Raise("TypeError"))
                        ELSE IF ~Truthy(Obj(get_ballot(ballots, c.ballot.ballot_number).ballot))
                        THEN Done(c, BallotStatus("INVALID_BALLOT"))
                        ELSE [c EXCEPT !.pc = "ballot_read"]]
        /\ UNCHANGED <<secrets, voters, ballots, candidates, last>>

\* count_ballot, lines 59-61: verify_ballot
CountVerifyBallot(t) ==
    LET c == calls[t]
    IN  /\ c.pc = "ballot_read"
        /\ calls' = [calls EXCEPT ![t] =
                        IF ~verify_ballot(ballots, c.id, c.ballot.ballot_number)
                        THEN Done(c, BallotStatus("VOTER_BALLOT_MISMATCH"))
                        ELSE [c EXCEPT !.pc = "verified"]]
        /\ UNCHANGED <<secrets, voters, ballots, candidates, last>>

\* the last step of count_ballot as it would be if it recorded the ballot as
\* counted whatever the status read at the start and whatever the store holds
\* by now
CountFinishCounting(t) ==
    LET c == calls[t]
    IN  /\ c.pc = "verified"
        /\ ballots' = update_ballot(ballots, c.ballot.ballot_number,
                                    c.ballot.chosen_candidate_id, c.ballot.voter_comments,
                                    BallotStatusValue("BALLOT_COUNTED"))
        /\ calls' = [calls EXCEPT ![t] = Done(c, BallotStatus("BALLOT_COUNTED"))]
        /\ UNCHANGED <<secrets, voters, candidates, last>>

\* count_ballot, lines 62-73: the decision on the status read at the start,
\* and the writes of the branch taken
CountFinish(t) ==
    LET c == calls[t]
        r == IF ~PyEq(c.voter_status, VoterStatusValue("REGISTERED_NOT_VOTED"))
             THEN count_ballot_fraud(voters, ballots, c.obfuscated_national_id, c.ballot)
             ELSE count_ballot_success(voters, ballots, candidates, secrets[SECRET_NAME_KEY],
                                       c.obfuscated_national_id, c.ballot)
    IN  /\ c.pc = "verified"
        /\ voters' = r.voters
        /\ ballots' = r.ballots
        /\ calls' = [calls EXCEPT ![t] = Done(c, r.ret)]
        /\ UNCHANGED <<secrets, candidates, last>>

NextConc ==
    \/ \E t \in Threads, bn \in BallotNumbers, vote \in VoteInputs, id \in NationalIds :
          CountBegin(t, bn, vote[1], vote[2], id)
    \/ \E t \in Threads : CountGetBallot(t)
    \/ \E t \in Threads : CountVerifyBallot(t)
    \/ \E t \in Threads : CountFinish(t)

SpecConc == InitConc /\ [][NextConc]_vars

\* ------------------------------------------------ first use of the secrets
\* the values get_random_bytes may produce for a key; two draws of 64 random
\* bytes do not produce the same value
FreshKeys == {"k1", "k2"}

\* the secret each of the two functions keeps its key under
SecretOf(op) ==
    IF op = "obfuscate_national_id" THEN SECRET_NATIONAL_ID_KEY ELSE SECRET_NAME_KEY

\* the arguments of the two functions
KeyCallInputs ==
    {<<"obfuscate_national_id", id>> : id \in NationalIds}
        \cup {<<"encrypt_name", name>> : name \in {<<"A", "l">>}}

\* a thread that is in no call
NoCall == [pc |-> "idle", op |-> "none", arg |-> << >>, sym_key |-> NoKey,
           generated |-> FALSE, ret |-> None]

\* a process in which no secret has been written yet, and the store is empty
InitKeys ==
    /\ secrets = [n \in SecretNames |-> NoKey]
    /\ voters = [k \in {} |-> None]
    /\ ballots = [k \in {} |-> None]
    /\ candidates = << >>
    /\ last = Call("init", NoId, NoBallot, None, None, None)
    /\ calls = [t \in Threads |-> NoCall]

\* voter.py line 27 / 45: sym_key = secret_registry.get_secret_bytes(...)
GetSecretBytes(t, op, arg) ==
    /\ calls[t].pc = "idle"
    /\ calls' = [calls EXCEPT ![t] =
                    [pc |-> "got", op |-> op, arg |-> arg,
                     sym_key |-> secrets[SecretOf(op)], generated |-> FALSE,
                     ret |-> None]]
    /\ UNCHANGED <<secrets, voters, ballots, candidates, last>>

\* line 28-29 / 46-47: `if not sym_key: sym_key = get_random_bytes(...)`
GetRandomBytes(t, key) ==
    /\ calls[t].pc = "got"
    /\ calls[t].sym_key = NoKey
    /\ \A u \in Threads : calls[u].sym_key # key
    /\ calls' = [calls EXCEPT ![t].pc = "drawn", ![t].sym_key = key]
    /\ UNCHANGED <<secrets, voters, ballots, candidates, last>>

\* line 30 / 48: secret_registry.overwrite_secret_bytes(..., sym_key)
OverwriteSecretBytes(t) ==
    /\ calls[t].pc = "drawn"
    /\ secrets' = [secrets EXCEPT ![SecretOf(calls[t].op)] = calls[t].sym_key]
    /\ calls' = [calls EXCEPT ![t].pc = "written", ![t].generated = TRUE]
    /\ UNCHANGED <<voters, ballots, candidates, last>>

\* lines 31-34 / 49-55: the cipher under sym_key and the value returned
Encrypt(t, nonce) ==
    LET c == calls[t]
    IN  /\ c.pc \in {"got", "written"}
        /\ c.sym_key # NoKey
        /\ calls' = [calls EXCEPT ![t].pc = "done",
                        ![t].ret = IF c.op = "obfuscate_national_id"
                                   THEN Str(obfuscate_national_id(c.sym_key, c.arg))
                                   ELSE Obj(encrypt_name(c.sym_key, nonce, c.arg))]
        /\ UNCHANGED <<secrets, voters, ballots, candidates, last>>

NextKeys ==
    \/ \E t \in Threads, in \in KeyCallInputs : GetSecretBytes(t, in[1], in[2])
    \/ \E t \in Threads, key \in FreshKeys : GetRandomBytes(t, key)
    \/ \E t \in Threads : OverwriteSecretBytes(t)
    \/ \E t \in Threads, nonce \in Nonces : Encrypt(t, nonce)

SpecKeys == InitKeys /\ [][NextKeys]_vars

\* ------------------------------------------- redaction called on its own
\* the candidate names registered before a redaction: one that occurs in no
\* marker and one that occurs in every marker
RedactCandidateNames == {<<"E", "d">>, <<"E", "D">>}

\* the markers redact_free_text writes
Markers == {REDACTED_PHONE_NUMBER, REDACTED_NAME, REDACTED_EMAIL, REDACTED_NATIONAL_ID}

RECURSIVE TextsOver(_, _)
\* the texts of at most n characters over an alphabet
TextsOver(alphabet, n) ==
    IF n = 0 THEN {<< >>}
    ELSE LET shorter == TextsOver(alphabet, n - 1)
         IN  shorter \cup {Append(t, ch) : t \in shorter, ch \in alphabet}

\* the free texts handed to redact_free_text: the empty text, each marker,
\* two markers in a row, and the short texts in which the names may occur
RedactTexts ==
    Markers \cup {m \o REDACTED_NAME : m \in Markers}
        \cup TextsOver({"E", "D", "d"}, MaxText)

\* pii_detection.redact_free_text on the store as it is; the sets of names
\* are iterated in some order
RedactFreeText(free_text) ==
    \E r \in RedactFreeTextResults(voters, candidates, secrets[SECRET_NAME_KEY],
                                    Str(free_text)) :
        /\ last' = Call("redact_free_text", NoId, NoBallot, None, Str(free_text), r)
        /\ UNCHANGED <<secrets, voters, ballots, candidates, calls>>

NextRedact ==
    \/ \E name \in RedactCandidateNames : RegisterCandidate(name)
    \/ \E voter \in VoterInputs : RegisterVoter(voter)
    \/ \E free_text \in RedactTexts : RedactFreeText(free_text)

SpecRedact == Init /\ [][NextRedact]_vars

\* ------------------------------------------------- vocabulary of the claims
\* the key under which the stored voters were obfuscated
StoredKey == secrets[SECRET_NATIONAL_ID_KEY]

\* the voter row of a raw national ID exists
Registered(id) == obfuscate_national_id(StoredKey, id) \in DOMAIN voters

\* the stored status text of a registered voter
StoredStatus(id) == voters[obfuscate_national_id(StoredKey, id)].status

\* the same two, in the state a step leads to
RegisteredAfter(id) ==
    obfuscate_national_id(secrets'[SECRET_NATIONAL_ID_KEY], id) \in DOMAIN voters'
StoredStatusAfter(id) ==
    voters'[obfuscate_national_id(secrets'[SECRET_NATIONAL_ID_KEY], id)].status

\* the sanitized national ID a stored token stands for
Deobfuscated(token) == Tail(token)

\* a raw national ID without its dashes and spaces
Digits(id) == SelectSeq(id, LAMBDA c : c \notin {"-", " "})

\* a Python set
PySet(elems) == [t |-> "set", v |-> elems]

\* the name a stored bundle was made from
PlainName(bundle) == bundle.ciphertext.v.pt

\* the "first last" full names of the stored voters whose status is
\* FraudCommitted
FraudulentFullNames ==
    {PlainName(voters[k].obfuscated_first_name) \o <<" ">> \o
     PlainName(voters[k].obfuscated_last_name) :
        k \in {x \in DOMAIN voters :
                  voters[x].status = VoterStatusValue("FRAUD_COMMITTED")}}

\* the first names, last names and candidate names in the store
StoredNames ==
    {PlainName(voters[k].obfuscated_first_name) : k \in DOMAIN voters}
        \cup {PlainName(voters[k].obfuscated_last_name) : k \in DOMAIN voters}
        \cup {candidates[i] : i \in DOMAIN candidates}

\* the texts that are a submitted text with every occurrence of the stored
\* names replaced by the marker (first names, then last names, then candidate
\* names, each group in any order)
Redacted(text) ==
    {Str(RedactInOrder(text.v, f, l, c)) :
        f \in Orders({PlainName(voters[k].obfuscated_first_name) : k \in DOMAIN voters}),
        l \in Orders({PlainName(voters[k].obfuscated_last_name) : k \in DOMAIN voters}),
        c \in Orders({candidates[i] : i \in DOMAIN candidates})}

\* two raw national IDs denote the same voter
SameVoter(a, b) == Sanitize(a) = Sanitize(b)

\* the ballot number was generated for this national ID
BoundTo(bn, id) == Decodable(bn) /\ generate_ballot_number(id, DecodeSalt(bn)) = bn

\* a ballot row as issue_ballot leaves it
Uncast(row) ==
    row = [chosen_candidate_id |-> None, voter_comments |-> None, status |-> None]

\* this step is a call of op (every call writes `last`; a call that changes
\* nothing at all is a stuttering step and is covered by [..]_vars)
Called(op) == last'.op = op

\* In every reachable state every stored voter is RegisteredNotVoted and every
\* ballot row is uncast: update_voter_status is only ever handed a str, whose
\* `.value` raises before the UPDATE, and invalidate_ballot never deletes.
StoreNeverRecordsAVote ==
    /\ \A k \in DOMAIN voters : voters[k].status = VoterStatusValue("REGISTERED_NOT_VOTED")
    /\ \A bn \in DOMAIN ballots : Uncast(ballots[bn])

\* ----------------------------------------------------------------------- C1
\* C1 (double-voting defense, as the scenario of section 8): when a registered
\* voter's count_ballot call with an existing ballot B1 bound to them is
\* followed by their count_ballot call with another existing ballot B2 bound
\* to them, the second call returns FraudCommitted, the voter's stored status
\* is FraudCommitted afterwards and the row of B2 no longer exists.
C1_SecondCountIsFraud ==
    [][(/\ last.op = "count_ballot" /\ Called("count_ballot")
        /\ SameVoter(last.id, last'.id)
        /\ Registered(last.id)
        /\ last.ballot \in DOMAIN ballots /\ BoundTo(last.ballot, last.id)
        /\ last'.ballot \in DOMAIN ballots /\ BoundTo(last'.ballot, last'.id)
        /\ last'.ballot # last.ballot)
       => /\ last'.ret = BallotStatus("FRAUD_COMMITTED")
          /\ RegisteredAfter(last'.id)
          /\ StoredStatusAfter(last'.id) = VoterStatusValue("FRAUD_COMMITTED")
          /\ last'.ballot \notin DOMAIN ballots']_vars

\* ----------------------------------------------------------------------- C2
\* C2 (successful count): count_ballot for a registered voter whose status is
\* RegisteredNotVoted, with an existing uncast ballot bound to that voter,
\* returns BallotCounted; afterwards the ballot row holds the chosen candidate
\* id, the redacted comments and the status BallotCounted, and the voter's
\* stored status is BallotCounted.
C2_CountSucceeds ==
    [][(/\ Called("count_ballot")
        /\ Registered(last'.id)
        /\ StoredStatus(last'.id) = VoterStatusValue("REGISTERED_NOT_VOTED")
        /\ last'.ballot \in DOMAIN ballots /\ Uncast(ballots[last'.ballot])
        /\ BoundTo(last'.ballot, last'.id))
       => /\ last'.ret = BallotStatus("BALLOT_COUNTED")
          /\ last'.ballot \in DOMAIN ballots'
          /\ ballots'[last'.ballot].chosen_candidate_id = last'.cand
          /\ ballots'[last'.ballot].voter_comments \in Redacted(last'.comments)
          /\ ballots'[last'.ballot].status = BallotStatusValue("BALLOT_COUNTED")
          /\ RegisteredAfter(last'.id)
          /\ StoredStatusAfter(last'.id) = VoterStatusValue("BALLOT_COUNTED")]_vars

\* ----------------------------------------------------------------------- C4
\* C4: count_ballot with a national ID that has no voter row returns
\* VoterNotRegistered, whatever the ballot number.
C4_UnregisteredIsReported ==
    [][(Called("count_ballot") /\ ~Registered(last'.id))
       => last'.ret = BallotStatus("VOTER_NOT_REGISTERED")]_vars

\* ----------------------------------------------------------------------- C5
\* C5: count_ballot by a registered voter with a ballot number that has no
\* row returns InvalidBallot; it does not raise.
C5_MissingBallotIsInvalid ==
    [][(Called("count_ballot") /\ Registered(last'.id)
        /\ last'.ballot \notin DOMAIN ballots)
       => last'.ret = BallotStatus("INVALID_BALLOT")]_vars

\* ----------------------------------------------------------------------- C6
\* C6: count_ballot by a registered voter W with an existing ballot that was
\* generated for a different registered voter V returns VoterBallotMismatch,
\* and the ballot row is left as it was (not counted).
C6_OtherVotersBallotIsMismatch ==
    [][(/\ Called("count_ballot")
        /\ Registered(last'.id)
        /\ last'.ballot \in DOMAIN ballots
        /\ \E v \in NationalIds :
              /\ Registered(v) /\ ~SameVoter(v, last'.id)
              /\ BoundTo(last'.ballot, v))
       => /\ last'.ret = BallotStatus("VOTER_BALLOT_MISMATCH")
          /\ last'.ballot \in DOMAIN ballots'
          /\ ballots'[last'.ballot] = ballots[last'.ballot]]_vars

\* a registered voter has just presented a stored ballot of another
\* registered voter and was told VoterBallotMismatch
C6_Witness ==
    /\ last.op = "count_ballot"
    /\ last.ret = BallotStatus("VOTER_BALLOT_MISMATCH")
    /\ Registered(last.id)
    /\ last.ballot \in DOMAIN ballots
    /\ \E v \in NationalIds :
          Registered(v) /\ ~SameVoter(v, last.id) /\ BoundTo(last.ballot, v)

\* ----------------------------------------------------------------------- C8
\* C8: invalidate_ballot on a ballot that issue_ballot issued and that has not
\* been cast returns true and removes the row (so that a second call on the
\* same number finds no row and returns false).
C8_InvalidateRemovesUncast ==
    [][(/\ Called("invalidate_ballot")
        /\ last'.ballot \in DOMAIN ballots /\ Uncast(ballots[last'.ballot]))
       => /\ last'.ret = Bool(TRUE)
          /\ last'.ballot \notin DOMAIN ballots']_vars

\* ---------------------------------------------------------------------- C10
\* C10: issue_ballot for a registered voter returns a ballot number that was
\* not in the store and adds exactly that row; the voters and every earlier
\* ballot row are unchanged, and every ballot that verified for the voter
\* before, and the new one, verify for the voter afterwards.
C10_IssueOnlyAddsOneRow ==
    [][(Called("issue_ballot") /\ Registered(last'.id))
       => \E bn \in BallotNumbers :
            /\ last'.ret = BallotNo(bn)
            /\ bn \notin DOMAIN ballots
            /\ DOMAIN ballots' = DOMAIN ballots \cup {bn}
            /\ \A k \in DOMAIN ballots : ballots'[k] = ballots[k]
            /\ voters' = voters
            /\ verify_ballot(ballots', last'.id, bn)
            /\ \A k \in DOMAIN ballots :
                  verify_ballot(ballots, last'.id, k) => verify_ballot(ballots', last'.id, k)]_vars

\* a second ballot has just been issued to a voter who holds another one, and
\* both verify for that voter
C10_Witness ==
    /\ last.op = "issue_ballot"
    /\ Registered(last.id)
    /\ \E b1 \in DOMAIN ballots, b2 \in DOMAIN ballots :
          /\ b1 # b2
          /\ last.ret = BallotNo(b2)
          /\ verify_ballot(ballots, last.id, b1)
          /\ verify_ballot(ballots, last.id, b2)

\* ---------------------------------------------------------------------- C11
\* C11: issue_ballot for a national ID that has no voter row (never
\* registered, or de-registered) returns None and adds no ballot row: the
\* ballots and the voters are as they were.
C11_NoBallotForUnregistered ==
    [][(Called("issue_ballot") /\ ~Registered(last'.id))
       => /\ last'.ret = None
          /\ ballots' = ballots
          /\ voters' = voters]_vars

\* issue_ballot has just returned None to a de-registered voter: a ballot
\* issued to them while they were registered is still in the store
C11_Witness ==
    /\ last.op = "issue_ballot"
    /\ last.ret = None
    /\ ~Registered(last.id)
    /\ \E bn \in DOMAIN ballots : BoundTo(bn, last.id)

\* ---------------------------------------------------------------------- C13
\* C13: in every reachable state the status of every ballot row is empty (the
\* row is uncast) or BallotCounted; the outcome codes FraudCommitted,
\* VoterBallotMismatch, InvalidBallot and VoterNotRegistered are never stored.
C13_BallotRowStatus ==
    \A bn \in DOMAIN ballots :
        ballots[bn].status \in {None, EmptyStr, BallotStatusValue("BALLOT_COUNTED")}

\* count_ballot has just answered with an outcome code other than
\* BallotCounted about a ballot whose row exists
C13_Witness ==
    /\ last.op = "count_ballot"
    /\ last.ballot \in DOMAIN ballots
    /\ last.ret \in {BallotStatus(n) : n \in {"FRAUD_COMMITTED", "VOTER_BALLOT_MISMATCH",
                                              "INVALID_BALLOT", "VOTER_NOT_REGISTERED"}}

\* ---------------------------------------------------------------------- C14
\* C14: register_voter returns true and stores the voter with status
\* RegisteredNotVoted when no voter with the same sanitized national ID is
\* stored (the other rows stay); otherwise it returns false and the voters
\* are unchanged. No two voter rows stand for the same sanitized national ID.
C14_RegisterOnce ==
    [][/\ Called("register_voter") =>
            IF Registered(last'.id)
            THEN last'.ret = Bool(FALSE) /\ voters' = voters
            ELSE /\ last'.ret = Bool(TRUE)
                 /\ RegisteredAfter(last'.id)
                 /\ StoredStatusAfter(last'.id) = VoterStatusValue("REGISTERED_NOT_VOTED")
                 /\ Cardinality(DOMAIN voters') = Cardinality(DOMAIN voters) + 1
                 /\ \A k \in DOMAIN voters : k \in DOMAIN voters' /\ voters'[k] = voters[k]
       /\ \A k1 \in DOMAIN voters', k2 \in DOMAIN voters' :
            Deobfuscated(k1) = Deobfuscated(k2) => k1 = k2]_vars

\* a registration has just been refused for a stored voter while another
\* voter is stored too
C14_Witness ==
    /\ last.op = "register_voter"
    /\ last.ret = Bool(FALSE)
    /\ Registered(last.id)
    /\ Cardinality(DOMAIN voters) = 2

\* ---------------------------------------------------------------------- C15
\* C15: de_register_voter returns true and removes the voter's row exactly
\* when the voter is stored with a status other than FraudCommitted (the other
\* rows stay), and get_voter_status then reports NotRegistered; otherwise,
\* in particular when the voter is not stored, it returns false and changes
\* nothing.
C15_DeRegister ==
    [][Called("de_register_voter") =>
         IF Registered(last'.id)
            /\ StoredStatus(last'.id) # VoterStatusValue("FRAUD_COMMITTED")
         THEN /\ last'.ret = Bool(TRUE)
              /\ ~RegisteredAfter(last'.id)
              /\ DOMAIN voters' = DOMAIN voters \ {obfuscate_national_id(StoredKey, last'.id)}
              /\ \A k \in DOMAIN voters' : voters'[k] = voters[k]
              /\ get_voter_status(voters', secrets'[SECRET_NATIONAL_ID_KEY], last'.id)
                    = VoterStatus("NOT_REGISTERED")
         ELSE last'.ret = Bool(FALSE) /\ voters' = voters]_vars

\* a voter has just been de-registered while another voter stays stored
C15_Witness ==
    /\ last.op = "de_register_voter"
    /\ last.ret = Bool(TRUE)
    /\ ~Registered(last.id)
    /\ DOMAIN voters # {}

\* ---------------------------------------------------------------------- C16
\* C16: NotRegistered is never persisted: every stored voter status is
\* RegisteredNotVoted, BallotCounted or FraudCommitted, and get_voter_status
\* returns NotRegistered exactly when the voter has no row (and the stored
\* status otherwise).
C16_NotRegisteredIsNoRow ==
    [][/\ \A k \in DOMAIN voters' :
            voters'[k].status \in {VoterStatusValue(n) : n \in
                {"REGISTERED_NOT_VOTED", "BALLOT_COUNTED", "FRAUD_COMMITTED"}}
       /\ Called("get_voter_status") =>
            /\ (last'.ret = VoterStatus("NOT_REGISTERED")) <=> ~Registered(last'.id)
            /\ Registered(last'.id) =>
                  last'.ret = VoterStatusOfText(StoredStatus(last'.id))
            /\ voters' = voters]_vars

\* get_voter_status has just reported NotRegistered for a voter without a row
\* while another voter is stored
C16_Witness ==
    /\ last.op = "get_voter_status"
    /\ last.ret = VoterStatus("NOT_REGISTERED")
    /\ ~Registered(last.id)
    /\ DOMAIN voters # {}

\* ---------------------------------------------------------------------- C17
\* C17: verify_ballot never raises and changes nothing: it returns true when
\* the ballot number was generated for the national ID given and its row is in
\* the store, and false otherwise: for any other national ID, for a
\* malformed number, and for a number that has no row.
C17_VerifyBallot ==
    [][Called("verify_ballot") =>
         /\ last'.ret \in {Bool(TRUE), Bool(FALSE)}
         /\ (last'.ret = Bool(TRUE)) <=>
                (last'.ballot \in DOMAIN ballots /\ BoundTo(last'.ballot, last'.id))
         /\ last'.ballot = MalformedBallotNumber => last'.ret = Bool(FALSE)
         /\ UNCHANGED <<secrets, voters, ballots, candidates>>]_vars

\* verify_ballot has just returned true for a stored ballot and its voter,
\* while a ballot of another voter, for whom it would return false, is stored
C17_Witness ==
    /\ last.op = "verify_ballot"
    /\ last.ret = Bool(TRUE)
    /\ last.ballot \in DOMAIN ballots
    /\ \E bn \in DOMAIN ballots : ~BoundTo(bn, last.id)

\* ---------------------------------------------------------------------- C18
\* C18: get_all_fraudulent_voters returns the set of "first last" full names
\* of exactly the stored voters whose status is FraudCommitted.
C18_FraudulentVotersListed ==
    [][Called("get_all_fraudulent_voters") => last'.ret = PySet(FraudulentFullNames)]_vars

\* ---------------------------------------------------------------------- C19
\* C19 (on the election the API can produce): when a registered voter whose
\* status is RegisteredNotVoted has just cast an existing ballot bound to
\* them, the next compute_election_winner call returns a candidate with the
\* greatest number of BallotCounted rows, that ballot's row included.
C19_WinnerAfterAVote ==
    [][(/\ last.op = "count_ballot" /\ Called("compute_election_winner")
        /\ Registered(last.id)
        /\ StoredStatus(last.id) = VoterStatusValue("REGISTERED_NOT_VOTED")
        /\ last.ballot \in DOMAIN ballots /\ BoundTo(last.ballot, last.id))
       => /\ last'.ret # Raise("ValueError")
          /\ last'.ret \in compute_election_winner(
                update_ballot(ballots, last.ballot, last.cand, last.comments,
                              BallotStatusValue("BALLOT_COUNTED")))]_vars

\* ---------------------------------------------------------------------- C20
\* C20: national IDs that differ only in dashes and spaces denote the same
\* voter. The form a register_voter, issue_ballot or get_voter_status call is
\* given obfuscates to the same token as the other
\* forms, and the key, once set, stays, so the token is the same on every
\* call; when a lookup under one form finds the
\* voter, register_voter under the other form returns false and changes
\* nothing, issue_ballot under the other form issues a ballot that verifies
\* under the first, and get_voter_status under the other form reports the
\* stored status.
C20_SameVoterWhateverTheForm ==
    [][/\ StoredKey # NoKey => secrets'[SECRET_NATIONAL_ID_KEY] = StoredKey
       /\ last'.op \in {"register_voter", "issue_ballot", "get_voter_status"} =>
            \A b \in NationalIds \ {last'.id} :
              Digits(b) = Digits(last'.id) =>
                /\ obfuscate_national_id(secrets'[SECRET_NATIONAL_ID_KEY], b)
                      = obfuscate_national_id(secrets'[SECRET_NATIONAL_ID_KEY], last'.id)
                /\ Registered(b) =>
                      /\ Called("register_voter") =>
                            last'.ret = Bool(FALSE) /\ voters' = voters
                      /\ Called("issue_ballot") =>
                            \E bn \in DOMAIN ballots' :
                                last'.ret = BallotNo(bn) /\ verify_ballot(ballots', b, bn)
                      /\ Called("get_voter_status") =>
                            last'.ret = VoterStatusOfText(StoredStatus(b))]_vars

\* register_voter under the form without separators has just been refused
\* while a lookup under the form with a dash and a space finds the voter, who
\* holds a ballot
C20_Witness ==
    /\ last.op = "register_voter"
    /\ last.id = <<"1", "1">>
    /\ last.ret = Bool(FALSE)
    /\ Registered(<<"1", "-", " ", "1">>)
    /\ \E bn \in DOMAIN ballots : verify_ballot(ballots, <<"1", "-", " ", "1">>, bn)

\* ---------------------------------------------------------------------- C12
\* C12: whatever the interleaving of two concurrent count_ballot calls for the
\* same voter with two distinct stored ballots both bound to that voter, they
\* never both observe RegisteredNotVoted and both return BallotCounted, and at
\* most one of the two ballot rows has the stored status BallotCounted.
C12_AtMostOneCounted ==
    \A t \in Threads, u \in Threads :
        LET c == calls[t]
            d == calls[u]
            bc == c.ballot.ballot_number
            bd == d.ballot.ballot_number
            observedRNV(x) == x \in {VoterStatus("REGISTERED_NOT_VOTED"),
                                     VoterStatusValue("REGISTERED_NOT_VOTED")}
        IN  (/\ t # u /\ c.pc # "idle" /\ d.pc # "idle"
             /\ SameVoter(c.id, d.id) /\ bc # bd
             /\ bc \in DOMAIN ballots /\ bd \in DOMAIN ballots
             /\ BoundTo(bc, c.id) /\ BoundTo(bd, d.id))
            => /\ ~(/\ observedRNV(c.voter_status) /\ observedRNV(d.voter_status)
                    /\ c.ret = BallotStatus("BALLOT_COUNTED")
                    /\ d.ret = BallotStatus("BALLOT_COUNTED"))
               /\ ~(/\ ballots[bc].status = BallotStatusValue("BALLOT_COUNTED")
                    /\ ballots[bd].status = BallotStatusValue("BALLOT_COUNTED"))

\* two count_ballot calls for the same voter, with the voter's two stored
\* ballots, have both ended, and one of them began while the other was in
\* flight
C12_Witness ==
    \E t \in Threads, u \in Threads :
        /\ t # u
        /\ calls[t].pc = "done" /\ calls[u].pc = "done"
        /\ calls[u].overlapped
        /\ calls[t].ret = Raise("AttributeError")
        /\ calls[u].ret = Raise("AttributeError")
        /\ SameVoter(calls[t].id, calls[u].id)
        /\ calls[t].ballot.ballot_number # calls[u].ballot.ballot_number
        /\ calls[t].ballot.ballot_number \in DOMAIN ballots
        /\ calls[u].ballot.ballot_number \in DOMAIN ballots
        /\ BoundTo(calls[t].ballot.ballot_number, calls[t].id)
        /\ BoundTo(calls[u].ballot.ballot_number, calls[u].id)

\* ---------------------------------------------------------------------- C21
\* C21: whatever the interleaving of two first calls that need the same named
\* secret (two obfuscate_national_id calls or two encrypt_name calls in a
\* process where the secret is not yet written), both calls use the same
\* key, the secret is written by at most one of them, and two
\* obfuscate_national_id calls for the same national ID return the same token.
C21_OneKeyForTwoFirstCalls ==
    \A t \in Threads, u \in Threads :
        (t # u /\ calls[t].pc = "done" /\ calls[u].pc = "done"
               /\ calls[t].op = calls[u].op)
        => /\ calls[t].sym_key = calls[u].sym_key
           /\ ~(calls[t].generated /\ calls[u].generated)
           /\ (/\ calls[t].op = "obfuscate_national_id"
               /\ Digits(calls[t].arg) = Digits(calls[u].arg))
              => calls[t].ret = calls[u].ret

\* ---------------------------------------------------------------------- C22
\* C22: when count_ballot is called in the case in which it succeeds (a
\* registered voter whose status is RegisteredNotVoted presents an existing
\* uncast ballot bound to them), the comments stored on the ballot row
\* afterwards are a text that contains no occurrence of a first name or last
\* name of a stored voter nor of a candidate name, and that text is the
\* submitted one with every such occurrence replaced by the name marker.
C22_CountedCommentsAreRedacted ==
    [][(/\ Called("count_ballot")
        /\ Registered(last'.id)
        /\ StoredStatus(last'.id) = VoterStatusValue("REGISTERED_NOT_VOTED")
        /\ last'.ballot \in DOMAIN ballots /\ Uncast(ballots[last'.ballot])
        /\ BoundTo(last'.ballot, last'.id))
       => /\ last'.ballot \in DOMAIN ballots'
          /\ ballots'[last'.ballot].voter_comments.t = "str"
          /\ \A name \in StoredNames :
                ~Contains(ballots'[last'.ballot].voter_comments.v, name)
          /\ ballots'[last'.ballot].voter_comments \in Redacted(last'.comments)]_vars

\* ---------------------------------------------------------------------- C23
RECURSIVE OnlyMarkers(_)
\* a text that consists of markers and of nothing else
OnlyMarkers(text) ==
    \/ text = << >>
    \/ \E m \in Markers :
          /\ Len(text) >= Len(m)
          /\ SubSeq(text, 1, Len(m)) = m
          /\ OnlyMarkers(SubSeq(text, Len(m) + 1, Len(text)))

\* C23 (redaction idempotence): whatever voters and candidates are stored,
\* redact_free_text called on a text that consists only of markers returns
\* that text unchanged.
C23_MarkersStayAsTheyAre ==
    [][(Called("redact_free_text") /\ OnlyMarkers(last'.comments.v))
       => last'.ret = last'.comments]_vars

\* ---------------------------------------------------------------------- C24
\* C24: a count_ballot call that returns VoterNotRegistered, InvalidBallot or
\* VoterBallotMismatch leaves the whole store unchanged: no voter row and no
\* ballot row is inserted, updated or deleted.
C24_RejectedCountChangesNothing ==
    [][(/\ Called("count_ballot")
        /\ last'.ret \in {BallotStatus("VOTER_NOT_REGISTERED"),
                          BallotStatus("INVALID_BALLOT"),
                          BallotStatus("VOTER_BALLOT_MISMATCH")})
       => /\ voters' = voters
          /\ ballots' = ballots
          /\ candidates' = candidates]_vars

\* count_ballot has just rejected, as a mismatch, a stored uncast ballot
\* presented with a national ID it is not bound to; the ballot and the voter
\* it is bound to are still stored
C24_Witness ==
    /\ last.op = "count_ballot"
    /\ last.ret = BallotStatus("VOTER_BALLOT_MISMATCH")
    /\ last.ballot \in DOMAIN ballots
    /\ Uncast(ballots[last.ballot])
    /\ ~BoundTo(last.ballot, last.id)
    /\ \E v \in NationalIds : BoundTo(last.ballot, v) /\ Registered(v)

\* ---------------------------------------------------------------------- C25
\* C25 (one person, one counted vote): in every reachable state, at most one
\* ballot row with the stored status BallotCounted is bound to any given
\* national ID.
C25_OneCountedVotePerPerson ==
    \A id \in NationalIds :
        Cardinality({bn \in DOMAIN ballots :
                        /\ BoundTo(bn, id)
                        /\ ballots[bn].status = BallotStatusValue("BALLOT_COUNTED")}) <= 1

\* a registered voter who holds two stored ballots bound to them has just
\* presented one of them to count_ballot
C25_Witness ==
    /\ last.op = "count_ballot"
    /\ Registered(last.id)
    /\ last.ballot \in DOMAIN ballots
    /\ BoundTo(last.ballot, last.id)
    /\ \E bn \in DOMAIN ballots : bn # last.ballot /\ BoundTo(bn, last.id)

====
